---- MODULE Spec2Model ----
(***************************************************************************)
(* A model of the i18n message extractor                                   *)
(* (modules/@angular/compiler/src/i18n/message_extractor.ts).              *)
(*                                                                         *)
(* Strings of the program (attribute names, attribute values, message     *)
(* contents) are sequences of tokens, so that prefix tests, substring and  *)
(* split are computed and not assumed.  A node of the html AST is a record *)
(* and a located node pairs a node with its path from the root list (the   *)
(* path is the identity of the node object).                               *)
(***************************************************************************)
EXTENDS Integers, Sequences, FiniteSets, TLC

VARIABLES
  template,   \* the template the caller of this session extracts
  messages,   \* the contents of the array this._messages refers to
  array,      \* the identity of that array (0 before the first call)
  errors,     \* the array this._errors refers to
  stack,      \* the extract invocations in progress, innermost last
  held,       \* the outcomes the callers hold (the latest ones)
  list,       \* removeDuplicates: its argument
  uniq,       \* removeDuplicates: the map being filled, in key order
  pos,        \* removeDuplicates: number of messages visited by forEach
  out         \* removeDuplicates: <<the returned array>> once it returned

vars == <<template, messages, array, errors, stack, held, list, uniq, pos, out>>

(***************************************************************************)
(* Bounds of the model.                                                    *)
(***************************************************************************)
MaxAttrs == 3   \* attributes of the element of an attribute document
MaxKids == 3    \* root nodes of a flat document
MaxDepth == 2   \* nesting depth of a chain document
MaxLen == 3     \* length of the list given to removeDuplicates
MaxNest == 2    \* extract invocations in progress at once

(***************************************************************************)
(* Facade helpers.                                                         *)
(***************************************************************************)
isPresent(x) == Len(x) > 0

startsWith(s, prefix) ==
  /\ Len(s) >= Len(prefix)
  /\ SubSeq(s, 1, Len(prefix)) = prefix

substring(s, n) == SubSeq(s, n + 1, Len(s))

indexOf(s, x) ==
  IF \E i \in 1..Len(s) : s[i] = x
  THEN (CHOOSE i \in 1..Len(s) : s[i] = x /\ \A j \in 1..(i - 1) : s[j] # x) - 1
  ELSE -1

RECURSIVE Concat(_)
Concat(ss) == IF ss = <<>> THEN <<>> ELSE Head(ss) \o Concat(Tail(ss))

Last1(s) == IF Len(s) = 0 THEN <<>> ELSE <<s[Len(s)]>>

IsPrefix(p, q) == Len(p) <= Len(q) /\ SubSeq(q, 1, Len(p)) = p

IsProperPrefix(p, q) == Len(p) < Len(q) /\ IsPrefix(p, q)

(***************************************************************************)
(* The html AST.                                                           *)
(***************************************************************************)
Attr(name, value) == [name |-> name, value |-> value]

HtmlElementAst(name, attrs, children) ==
  [kind |-> "element", name |-> name, attrs |-> attrs, children |-> children,
   value |-> <<>>]

HtmlTextAst(value) ==
  [kind |-> "text", name |-> "", attrs |-> <<>>, children |-> <<>>,
   value |-> value]

HtmlCommentAst(value) ==
  [kind |-> "comment", name |-> "", attrs |-> <<>>, children |-> <<>>,
   value |-> value]

Located(nodes, parent) ==
  [i \in 1..Len(nodes) |-> [n |-> nodes[i], p |-> Append(parent, i)]]

(***************************************************************************)
(* Errors.                                                                 *)
(***************************************************************************)
I18nError(at, attr, msg) ==
  [type |-> "I18nError", at |-> at, attr |-> attr, msg |-> msg]

OtherError(at, attr, msg) ==
  [type |-> "Error", at |-> at, attr |-> attr, msg |-> msg]

ParseError(msg) ==
  [type |-> "ParseError", at |-> <<>>, attr |-> <<>>, msg |-> msg]

\* the TypeError of a call of something that is not a function; it is an
\* Error and not an I18nError
TypeError(at, attr) == OtherError(at, attr, "indexOf is not a function")

(***************************************************************************)
(* The configuration the extractor is constructed with.                    *)
(***************************************************************************)
_implicitTags == <<"h1">>

_implicitAttrs == [div |-> << <<"title">>, <<"alt">> >>]

\* _implicitAttrs is a plain object: the names it inherits from
\* Object.prototype
ObjectPrototype ==
  {"constructor", "toString", "toLocaleString", "valueOf", "hasOwnProperty",
   "isPrototypeOf", "propertyIsEnumerable", "__proto__", "__defineGetter__",
   "__defineSetter__", "__lookupGetter__", "__lookupSetter__"}

I18N_ATTR_PREFIX == <<"i18n-">>

I18N_ATTR == <<"i18n">>

(***************************************************************************)
(* shared.ts: the message builders.  A builder returns a message or raises *)
(* an error; a value that is the token "bad" is malformed (an i18n error), *)
(* a value that is the token "boom" makes the expression parser fail with  *)
(* an error that is not an i18n error.                                     *)
(***************************************************************************)
Message(content, meaning, description, src) ==
  [content |-> content, meaning |-> meaning, description |-> description,
   src |-> src]

Src(via, at, attr, site) == [via |-> via, at |-> at, attr |-> attr, site |-> site]

Ok(m) == [ok |-> TRUE, msg |-> m, err |-> ParseError("")]

Raise(e) == [ok |-> FALSE, msg |-> Message(<<>>, <<>>, <<>>, Src("", <<>>, <<>>, "")),
             err |-> e]

Bad == <<"bad">>

Boom == <<"boom">>

split(s, sep) ==
  IF indexOf(s, sep) = -1 THEN <<s>>
  ELSE <<SubSeq(s, 1, indexOf(s, sep)), substring(s, indexOf(s, sep) + 1)>>

\* null is <<>>, a present string s is <<s>>
meaning(i18n) ==
  IF ~isPresent(i18n) \/ i18n = <<<<>>>> THEN <<>> ELSE <<split(i18n[1], "|")[1]>>

description(i18n) ==
  IF ~isPresent(i18n) \/ i18n = <<<<>>>> THEN <<>>
  ELSE IF Len(split(i18n[1], "|")) > 1
       THEN <<split(split(i18n[1], "|")[2], "|")[1]>>
       ELSE <<>>

RECURSIVE stringifyNodes(_)
stringifyNodes(nodes) ==
  IF nodes = <<>> THEN <<>>
  ELSE LET n == Head(nodes).n
       IN (IF n.kind = "element"
           THEN <<"<ph>">> \o stringifyNodes(Located(n.children, Head(nodes).p))
                \o <<"</ph>">>
           ELSE IF n.kind = "text" THEN n.value ELSE <<>>)
          \o stringifyNodes(Tail(nodes))

messageFromAttribute(at, attr, mng, desc, src) ==
  IF attr.value = Bad
  THEN Raise(I18nError(at, attr.name, "Invalid interpolation."))
  ELSE IF attr.value = Boom
       THEN Raise(OtherError(at, attr.name, "parser failure"))
       ELSE Ok(Message(attr.value, mng, desc, src))

messageFromI18nAttribute(p, i18nAttr, site) ==
  LET expectedName == substring(i18nAttr.name, Len(I18N_ATTR_PREFIX))
      found == SelectSeq(p.n.attrs, LAMBDA a : a.name = expectedName)
      src == Src("explicit", p.p, expectedName, site)
  IN IF i18nAttr.value = Bad
     THEN Raise(I18nError(p.p, expectedName, "Malformed marker."))
     ELSE IF i18nAttr.value = Boom
          THEN Raise(OtherError(p.p, expectedName, "parser failure"))
          ELSE IF found # <<>>
               THEN messageFromAttribute(p.p, found[1], meaning(<<i18nAttr.value>>),
                                         description(<<i18nAttr.value>>), src)
               ELSE Raise(I18nError(p.p, expectedName, "Missing attribute."))

createMessage(part) ==
  IF part.i18n = <<Bad>>
  THEN Raise(I18nError(part.at, <<>>, "Malformed marker."))
  ELSE IF part.i18n = <<Boom>>
       THEN Raise(OtherError(part.at, <<>>, "parser failure"))
       ELSE Ok(Message(stringifyNodes(part.children[1]), meaning(part.i18n),
                       description(part.i18n), Src("content", part.at, <<>>, "part")))

(***************************************************************************)
(* shared.ts: partition.                                                   *)
(***************************************************************************)
Part(rootElement, children, i18n, hasI18n, at) ==
  [rootElement |-> rootElement, children |-> children, i18n |-> i18n,
   hasI18n |-> hasI18n, at |-> at]

_isOpeningComment(n) == n.kind = "comment" /\ startsWith(n.value, <<"i18n">>)

_isClosingComment(n) == n.kind = "comment" /\ n.value = <<"/i18n">>

_findI18nAttr(n) == SelectSeq(n.attrs, LAMBDA a : a.name = I18N_ATTR)

RECURSIVE partitionFrom(_, _, _)
partitionFrom(nodes, i, acc) ==
  IF i > Len(nodes) THEN acc
  ELSE
    LET node == nodes[i].n
        at == nodes[i].p
        closers == {j \in (i + 1)..Len(nodes) : _isClosingComment(nodes[j].n)}
    IN IF _isOpeningComment(node)
       THEN IF closers = {}
            THEN [parts |-> Append(acc.parts,
                              Part(<<>>, <<SubSeq(nodes, i + 1, Len(nodes))>>,
                                   <<substring(node.value, 1)>>, TRUE, at)),
                  errors |-> Append(acc.errors,
                              I18nError(at, <<>>, "Missing closing 'i18n' comment."))]
            ELSE LET j == CHOOSE k \in closers : \A l \in closers : k <= l
                 IN partitionFrom(nodes, j + 1,
                      [parts |-> Append(acc.parts,
                                   Part(<<>>, <<SubSeq(nodes, i + 1, j - 1)>>,
                                        <<substring(node.value, 1)>>, TRUE, at)),
                       errors |-> acc.errors])
       ELSE IF node.kind = "element"
       THEN LET i18n == _findI18nAttr(node)
                hasI18n == isPresent(i18n) \/ indexOf(_implicitTags, node.name) > -1
            IN partitionFrom(nodes, i + 1,
                 [parts |-> Append(acc.parts,
                              Part(<<nodes[i]>>, <<Located(node.children, at)>>,
                                   IF isPresent(i18n) THEN <<i18n[1].value>> ELSE <<>>,
                                   hasI18n, at)),
                  errors |-> acc.errors])
       ELSE IF node.kind = "text"
       THEN partitionFrom(nodes, i + 1,
              [parts |-> Append(acc.parts, Part(<<>>, <<>>, <<>>, FALSE, at)),
               errors |-> acc.errors])
       ELSE partitionFrom(nodes, i + 1,
              [parts |-> Append(acc.parts, Part(<<>>, <<>>, <<>>, FALSE, at)),
               errors |-> IF _isClosingComment(node)
                          THEN Append(acc.errors,
                                 I18nError(at, <<>>, "Unexpected closing 'i18n' comment."))
                          ELSE acc.errors])

partition(nodes) == partitionFrom(nodes, 1, [parts |-> <<>>, errors |-> <<>>])

(***************************************************************************)
(* The walk of MessageExtractor.  The walk of a node list is the sequence  *)
(* of the steps it performs on this._messages and this._errors, in the     *)
(* order the code performs them:                                           *)
(*   "error"     partition pushes an error on this._errors                 *)
(*   "content"   push part.createMessage(...)                    (l. 124)  *)
(*   "explicit"  the body of the first forEach               (l. 160-169)  *)
(*   "implicit"  the body of the second forEach              (l. 177-178)  *)
(*   "filter"    the third filter calls indexOf on a transAttrs that is    *)
(*               not an array                                    (l. 175)  *)
(* A step that throws ends the walk: the rest of the sequence is dropped.  *)
(***************************************************************************)
NoAttr == Attr(<<>>, <<>>)

NoPart == Part(<<>>, <<>>, <<>>, FALSE, <<>>)

NoNode == [n |-> HtmlTextAst(<<>>), p |-> <<>>]

Step(op, p, attr, part, err, site) ==
  [op |-> op, p |-> p, attr |-> attr, part |-> part, err |-> err, site |-> site]

\* l. 154-155: this._implicitAttrs[p.name] is present for an own key and for
\* an inherited member, which is not an array and has no indexOf
transAttrs(p) ==
  IF p.n.name \in DOMAIN _implicitAttrs
  THEN [isArray |-> TRUE, items |-> _implicitAttrs[p.n.name]]
  ELSE IF p.n.name \in ObjectPrototype
       THEN [isArray |-> FALSE, items |-> <<>>]
       ELSE [isArray |-> TRUE, items |-> <<>>]

\* l. 159: the attributes the first forEach visits
explicitOf(p) ==
  SelectSeq(p.n.attrs, LAMBDA attr : startsWith(attr.name, I18N_ATTR_PREFIX))

\* a variant that records the name only once the message is built
explicitAttrsAfterBuild(p, site) ==
  LET built == SelectSeq(explicitOf(p),
                 LAMBDA attr : messageFromI18nAttribute(p, attr, site).ok)
  IN [i \in 1..Len(built) |-> substring(built[i].name, Len(I18N_ATTR_PREFIX))]

\* l. 156, 161: explicitAttrs once the first forEach is over (the name is
\* pushed before the message is built, so a caught error leaves it there)
explicitAttrs(p, site) ==
  [i \in 1..Len(explicitOf(p)) |->
     substring(explicitOf(p)[i].name, Len(I18N_ATTR_PREFIX))]

\* a variant without the filter on explicitAttrs
isImplicitNoClaim(attr, explicit, trans) ==
  /\ ~startsWith(attr.name, I18N_ATTR_PREFIX)
  /\ indexOf(trans.items, attr.name) > -1

\* l. 173-175: the three filters
isImplicit(attr, explicit, trans) ==
  /\ ~startsWith(attr.name, I18N_ATTR_PREFIX)
  /\ indexOf(explicit, attr.name) = -1
  /\ indexOf(trans.items, attr.name) > -1

\* l. 173-175: the attributes that reach the third filter, which calls
\* transAttrs.indexOf
reachIndexOf(p, site) ==
  SelectSeq(p.n.attrs,
    LAMBDA attr : /\ ~startsWith(attr.name, I18N_ATTR_PREFIX)
                  /\ indexOf(explicitAttrs(p, site), attr.name) = -1)

_extractMessagesFromAttributes(p, site) ==
  LET explicit == explicitOf(p)
      implicit == SelectSeq(p.n.attrs,
                    LAMBDA attr : isImplicit(attr, explicitAttrs(p, site), transAttrs(p)))
  IN [i \in 1..Len(explicit) |->
        Step("explicit", p, explicit[i], NoPart, ParseError(""), site)]
     \o (IF ~transAttrs(p).isArray /\ reachIndexOf(p, site) # <<>>
         THEN <<Step("filter", p, reachIndexOf(p, site)[1], NoPart, ParseError(""), site)>>
         ELSE [i \in 1..Len(implicit) |->
                 Step("implicit", p, implicit[i], NoPart, ParseError(""), site)])

RECURSIVE _recurseToExtractMessagesFromAttributes(_)
_recurseToExtractMessagesFromAttributes(nodes) ==
  Concat([i \in 1..Len(nodes) |->
    IF nodes[i].n.kind = "element"
    THEN _extractMessagesFromAttributes(nodes[i], "nested")
         \o _recurseToExtractMessagesFromAttributes(
              Located(nodes[i].n.children, nodes[i].p))
    ELSE <<>>])

RECURSIVE _recurse(_)

\* a variant that handles the attributes of the root element first
_extractMessagesFromPartRootFirst(part) ==
  (IF isPresent(part.rootElement)
   THEN _extractMessagesFromAttributes(part.rootElement[1], "root")
   ELSE <<>>)
  \o (IF part.hasI18n
      THEN <<Step("content", NoNode, NoAttr, part, ParseError(""), "part")>>
           \o _recurseToExtractMessagesFromAttributes(part.children[1])
      ELSE _recurse(part.children))

\* a variant that partitions the children of a translatable part again
_extractMessagesFromPartRepartition(part) ==
  (IF part.hasI18n
   THEN <<Step("content", NoNode, NoAttr, part, ParseError(""), "part")>>
        \o _recurse(part.children)
   ELSE _recurse(part.children))
  \o (IF isPresent(part.rootElement)
      THEN _extractMessagesFromAttributes(part.rootElement[1], "root")
      ELSE <<>>)

_extractMessagesFromPart(part) ==
  (IF part.hasI18n
   THEN <<Step("content", NoNode, NoAttr, part, ParseError(""), "part")>>
        \o _recurseToExtractMessagesFromAttributes(part.children[1])
   ELSE _recurse(part.children))
  \o (IF isPresent(part.rootElement)
      THEN _extractMessagesFromAttributes(part.rootElement[1], "root")
      ELSE <<>>)

\* nodes is <<>> (null) or <<the node list>>
_recurse(nodes) ==
  IF isPresent(nodes)
  THEN LET parts == partition(nodes[1])
       IN [i \in 1..Len(parts.errors) |->
             Step("error", NoNode, NoAttr, NoPart, parts.errors[i], "part")]
          \o Concat([i \in 1..Len(parts.parts) |->
                       _extractMessagesFromPart(parts.parts[i])])
  ELSE <<>>

\* what the call of a step returns or raises
Build(s) ==
  IF s.op = "content" THEN createMessage(s.part)
  ELSE IF s.op = "explicit" THEN messageFromI18nAttribute(s.p, s.attr, s.site)
  ELSE IF s.op = "filter" THEN Raise(TypeError(s.p.p, s.attr.name))
  ELSE messageFromAttribute(s.p.p, s.attr, <<>>, <<>>,
                            Src("implicit", s.p.p, s.attr.name, s.site))

\* a variant of the catch clause that records every error
caughtAny(s, e) == s.op = "explicit"

\* l. 163-168: only the first forEach has a try, and it rethrows what is
\* not an I18nError
caught(s, e) == s.op = "explicit" /\ e.type = "I18nError"

(***************************************************************************)
(* The templates.  A template stands for the text given to extract and is  *)
(* what the html parser makes of it: the root nodes and the parse errors.  *)
(***************************************************************************)
Marker == <<"m", "|", "d">>

Plain == <<"ok">>

AttrPool ==
  {Attr(<<"i18n-", x>>, v) : x \in {"title", "alt"}, v \in {Marker, Bad, Boom}}
  \cup {Attr(<<x>>, v) : x \in {"title", "alt"}, v \in {Plain, Bad, Boom}}

RECURSIVE AttrLists(_)
AttrLists(k) ==
  IF k = 0 THEN {<<>>}
  ELSE LET shorter == AttrLists(k - 1)
       IN shorter \cup
          UNION {{Append(s, a) :
                    a \in {b \in AttrPool : \A i \in 1..Len(s) : s[i].name # b.name}} :
                 s \in shorter}

Labels ==
  { <<"div", <<>>>>,
    <<"div", <<Attr(I18N_ATTR, Marker), Attr(<<"title">>, Plain)>>>>,
    <<"div", <<Attr(<<"title">>, Plain), Attr(<<"i18n-", "title">>, Marker)>>>>,
    <<"h1", <<Attr(<<"i18n-", "alt">>, Marker), Attr(<<"alt">>, Plain)>>>>,
    <<"div", <<Attr(I18N_ATTR, Bad)>>>>,
    <<"div", <<Attr(I18N_ATTR, Boom)>>>> }

RECURSIVE ChainNodes(_)
ChainNodes(d) ==
  {HtmlTextAst(Plain)}
  \cup {HtmlElementAst(l[1], l[2], kids) :
          l \in Labels,
          kids \in {<<>>} \cup (IF d = 0 THEN {} ELSE {<<c>> : c \in ChainNodes(d - 1)})}

Units ==
  {HtmlTextAst(Plain), HtmlCommentAst(<<"i18n">>), HtmlCommentAst(<<"/i18n">>),
   HtmlElementAst("h1", <<>>, <<>>),
   HtmlElementAst("div", <<Attr(<<"alt">>, Plain), Attr(<<"i18n-", "title">>, Marker)>>, <<>>),
   HtmlElementAst("constructor",
     <<Attr(<<"title">>, Plain), Attr(<<"i18n-", "title">>, Marker), Attr(<<"alt">>, Plain)>>,
     <<>>),
   HtmlElementAst("constructor",
     <<Attr(<<"title">>, Plain), Attr(<<"i18n-", "title">>, Marker)>>, <<>>)}
  \cup {HtmlElementAst("div", a, <<HtmlElementAst("div", <<Attr(<<"title">>, Plain)>>, <<>>)>>) :
          a \in {<<>>, <<Attr(I18N_ATTR, Marker), Attr(<<"alt">>, Plain)>>}}

RECURSIVE Lists(_, _)
Lists(S, k) ==
  IF k = 0 THEN {<<>>}
  ELSE LET shorter == Lists(S, k - 1)
       IN shorter \cup {Append(s, x) : s \in shorter, x \in S}

Template(rootNodes, errs) == [rootNodes |-> rootNodes, errors |-> errs]

ParseErrorLists ==
  { <<ParseError("e1")>>, <<ParseError("e1"), ParseError("e2")>>,
    <<ParseError("e2"), ParseError("e1")>> }

Templates ==
  {Template(<<HtmlElementAst("div", al, <<>>)>>, <<>>) : al \in AttrLists(MaxAttrs)}
  \cup {Template(<<n>>, <<>>) : n \in ChainNodes(MaxDepth)}
  \cup {Template(ns, <<>>) : ns \in Lists(Units, MaxKids)}
  \cup {Template(ns, es) : ns \in Lists(Units, 1), es \in ParseErrorLists}

\* the templates of the sessions in which invocations overlap
ProbeTemplates ==
  { Template(<<HtmlElementAst("div", <<Attr(I18N_ATTR, Marker), Attr(<<"title">>, Plain)>>, <<>>)>>, <<>>),
    Template(<<HtmlElementAst("div", <<Attr(<<"i18n-", "alt">>, Marker)>>, <<>>)>>, <<>>),
    Template(<<HtmlElementAst("div", <<Attr(<<"alt">>, Boom)>>, <<>>)>>, <<>>),
    Template(<<HtmlCommentAst(<<"/i18n">>), HtmlTextAst(Plain)>>, <<>>),
    Template(<<HtmlElementAst("h1", <<>>, <<>>)>>, <<ParseError("e1")>>) }

(***************************************************************************)
(* MessageExtractor.extract as a state machine.                            *)
(***************************************************************************)
\* a variant that keeps the array of the previous call
resetKeeps(old) == old

\* l. 110-111: this._messages = []; this._errors = []
reset(old) == <<>>

\* l. 113: the parser's result for the template
parse(t) == [rootNodes |-> t.rootNodes, errors |-> t.errors]

\* a variant that walks whatever the parser reported
shouldWalkAlways(res) == TRUE

\* l. 115
shouldWalk(res) == Len(res.errors) = 0

\* l. 119: this._errors.concat(res.errors)
resultErrors(errs, res) == errs \o res.errors

\* target is the array a push in progress read as this._messages before it
\* called its builder (0: none, or the builder has not called extract);
\* raised is <<e>> when an extract the builder or the parser called threw e
\* and the throw came through
Frame(t, nested) ==
  [template |-> t, pc |-> "parse", walked |-> FALSE, agenda |-> <<>>, done |-> 0,
   overlapped |-> nested, target |-> 0, raised |-> <<>>]

Top == stack[Len(stack)]

Pop == SubSeq(stack, 1, Len(stack) - 1)

SetTop(f) == [stack EXCEPT ![Len(stack)] = f]

\* Array.push on the array a: a held result whose messages field is that
\* array changes with it
Pushed(hs, a, m) ==
  [i \in 1..Len(hs) |->
     IF hs[i].array = a THEN [hs[i] EXCEPT !.messages = Append(@, m)] ELSE hs[i]]

\* the arrays a result or a push in progress refers to
InUse(frames, hs) ==
  {hs[i].array : i \in 1..Len(hs)} \cup {frames[i].target : i \in 1..Len(frames)}

\* l. 110: the identity of a new array
NewArray(frames, hs) ==
  CHOOSE a \in 1..(Cardinality(InUse(frames, hs)) + 1) :
    /\ a \notin InUse(frames, hs)
    /\ \A b \in 1..(a - 1) : b \in InUse(frames, hs)

Outcome(f, kind, msgs, errs, e, a) ==
  [template |-> f.template, outcome |-> kind, messages |-> msgs, errors |-> errs,
   atReturn |-> msgs, thrown |-> e, array |-> a, walked |-> f.walked,
   done |-> f.done, left |-> Len(f.agenda), overlapped |-> f.overlapped]

DedupeIdle == UNCHANGED <<list, uniq, pos, out>>

\* l. 107-113: the fields are set to new arrays and the parser is called;
\* frames are the invocations in progress
extract(t, frames) ==
  /\ messages' = reset(messages)
  /\ array' = NewArray(frames, Last1(held))
  /\ errors' = reset(errors)
  /\ stack' = Append([i \in 1..Len(frames) |-> [frames[i] EXCEPT !.overlapped = TRUE]],
                     Frame(t, frames # <<>>))
  /\ held' = Last1(held)
  /\ UNCHANGED template
  /\ DedupeIdle

\* the caller extracts its template (again)
Call == stack = <<>> /\ extract(template, <<>>)

\* a caller extracts some template
CallAny == stack = <<>> /\ \E t \in ProbeTemplates : extract(t, <<>>)

\* a step of the walk that calls a message builder
Builds(f) ==
  /\ f.pc = "walk"
  /\ f.agenda # <<>>
  /\ Head(f.agenda).op \in {"content", "explicit", "implicit"}

\* l. 124, 162, 178: this._messages.push(builder(...)) reads this._messages
\* before it calls the builder
Reading(f) ==
  IF Builds(f) /\ f.target = 0 THEN [f EXCEPT !.target = array] ELSE f

\* the parser or a message builder of the innermost invocation calls extract
Reenter ==
  /\ stack # <<>>
  /\ Len(stack) < MaxNest
  /\ Top.raised = <<>>
  /\ Top.pc = "parse" \/ Builds(Top)
  /\ \E t \in ProbeTemplates : extract(t, SetTop(Reading(Top)))

\* l. 113-117: the parser returns; the walk is what _recurse will do
ParseReturns ==
  /\ stack # <<>>
  /\ Top.pc = "parse"
  /\ Top.raised = <<>>
  /\ LET res == parse(Top.template)
     IN stack' = SetTop([Top EXCEPT
          !.pc = "walk",
          !.walked = shouldWalk(res),
          !.agenda = IF shouldWalk(res)
                     THEN _recurse(<<Located(res.rootNodes, <<>>)>>)
                     ELSE <<>>])
  /\ UNCHANGED <<template, messages, array, errors, held>>
  /\ DedupeIdle

Walking == stack # <<>> /\ Top.pc = "walk" /\ Top.agenda # <<>>

Advance ==
  SetTop([Top EXCEPT !.agenda = Tail(@), !.done = @ + 1, !.target = 0, !.raised = <<>>])

\* the step of f raises: its own call does, or an extract called from its
\* builder threw and the builder let the error through
Fails(f) == f.raised # <<>> \/ ~Build(Head(f.agenda)).ok

Raised(f) == IF f.raised # <<>> THEN f.raised[1] ELSE Build(Head(f.agenda)).err

\* l. 137: partition reports an error on this._errors
StepError ==
  /\ Walking
  /\ Head(Top.agenda).op = "error"
  /\ errors' = Append(errors, Head(Top.agenda).err)
  /\ stack' = Advance
  /\ UNCHANGED <<template, messages, array, held>>
  /\ DedupeIdle

\* l. 124, 162, 178: the message is built and pushed on the array that was
\* read before the builder was called
StepPush ==
  /\ Walking
  /\ Head(Top.agenda).op # "error"
  /\ ~Fails(Top)
  /\ LET a == Reading(Top).target
         m == Build(Head(Top.agenda)).msg
     IN /\ messages' = IF a = array THEN Append(messages, m) ELSE messages
        /\ held' = Pushed(held, a, m)
  /\ stack' = Advance
  /\ UNCHANGED <<template, array, errors>>
  /\ DedupeIdle

\* l. 163-165: the catch clause records the error on this._errors
StepCatch ==
  /\ Walking
  /\ Head(Top.agenda).op # "error"
  /\ Fails(Top)
  /\ caught(Head(Top.agenda), Raised(Top))
  /\ errors' = Append(errors, Raised(Top))
  /\ stack' = Advance
  /\ UNCHANGED <<template, messages, array, held>>
  /\ DedupeIdle

\* l. 167 and the calls outside a try: the error leaves extract
Throwing ==
  /\ Walking
  /\ Head(Top.agenda).op # "error"
  /\ Fails(Top)
  /\ ~caught(Head(Top.agenda), Raised(Top))

\* the error reaches the caller of extract, which keeps it
StepThrow ==
  /\ Throwing
  /\ held' = Append(Last1(held), Outcome(Top, "threw", messages, errors, Raised(Top), 0))
  /\ stack' = Pop
  /\ UNCHANGED <<template, messages, array, errors>>
  /\ DedupeIdle

\* l. 113: an extract the parser called threw and the parser let the error
\* through: there is no try around the call of the parser
ParseThrow ==
  /\ stack # <<>>
  /\ Top.pc = "parse"
  /\ Top.raised # <<>>
  /\ held' = Append(Last1(held), Outcome(Top, "threw", messages, errors, Top.raised[1], 0))
  /\ stack' = Pop
  /\ UNCHANGED <<template, messages, array, errors>>
  /\ DedupeIdle

\* the error of a nested extract goes through the builder or the parser that
\* called it: the calling invocation raises it in its turn
Unwind ==
  /\ Len(stack) >= 2
  /\ Throwing \/ (Top.pc = "parse" /\ Top.raised # <<>>)
  /\ held' = Append(Last1(held), Outcome(Top, "threw", messages, errors, Raised(Top), 0))
  /\ stack' = [Pop EXCEPT ![Len(stack) - 1].raised = <<Raised(Top)>>]
  /\ UNCHANGED <<template, messages, array, errors>>
  /\ DedupeIdle

\* l. 119: the result holds this._messages itself and a new array of errors
Return ==
  /\ stack # <<>>
  /\ Top.pc = "walk"
  /\ Top.agenda = <<>>
  /\ held' = Append(Last1(held),
               Outcome(Top, "returned", messages,
                       resultErrors(errors, parse(Top.template)), ParseError(""), array))
  /\ stack' = Pop
  /\ UNCHANGED <<template, messages, array, errors>>
  /\ DedupeIdle

(***************************************************************************)
(* message.ts id, the facade's StringMapWrapper and removeDuplicates.      *)
(* A string map is a JavaScript object: the sequence of its properties in  *)
(* property order (the keys that are array indices first, ascending, then  *)
(* the other keys in the order they were created).                         *)
(***************************************************************************)
\* encodeURI on the tokens of this model
escape(s) == [i \in 1..Len(s) |-> IF s[i] = "|" THEN "%7C" ELSE s[i]]

id(m) ==
  escape(<<"$", "n", "g", "|">>
         \o (IF isPresent(m.meaning) THEN m.meaning[1] ELSE <<>>)
         \o <<"|">> \o m.content)

DigitTokens == <<"0", "1", "2", "3", "4", "5", "6", "7", "8", "9">>

IsArrayIndex(k) ==
  /\ Len(k) > 0
  /\ \A i \in 1..Len(k) : indexOf(DigitTokens, k[i]) > -1
  /\ Len(k) > 1 => k[1] # "0"

RECURSIVE IndexValue(_)
IndexValue(k) ==
  IF k = <<>> THEN 0
  ELSE 10 * IndexValue(SubSeq(k, 1, Len(k) - 1)) + indexOf(DigitTokens, k[Len(k)])

contains(map, key) == \E i \in 1..Len(map) : map[i].key = key

\* map[key] = value
set(map, key, value) ==
  IF contains(map, key)
  THEN [i \in 1..Len(map) |->
          IF map[i].key = key THEN [key |-> key, value |-> value] ELSE map[i]]
  ELSE IF IsArrayIndex(key)
       THEN LET before == SelectSeq(map,
                            LAMBDA e : IsArrayIndex(e.key)
                                       /\ IndexValue(e.key) < IndexValue(key))
            IN before \o <<[key |-> key, value |-> value]>>
               \o SubSeq(map, Len(before) + 1, Len(map))
       ELSE Append(map, [key |-> key, value |-> value])

values(map) == [i \in 1..Len(map) |-> map[i].value]

\* a variant in which a later message replaces the one recorded
visitLastWins(map, m) == set(map, id(m), m)

\* l. 32-36: the body of the forEach
visit(map, m) == IF ~contains(map, id(m)) THEN set(map, id(m), m) ELSE map

ExtractorIdle == UNCHANGED <<template, messages, array, errors, stack, held>>

Visit ==
  /\ out = <<>>
  /\ pos < Len(list)
  /\ uniq' = visit(uniq, list[pos + 1])
  /\ pos' = pos + 1
  /\ UNCHANGED <<list, out>>
  /\ ExtractorIdle

\* l. 37
ReturnValues ==
  /\ out = <<>>
  /\ pos = Len(list)
  /\ out' = <<values(uniq)>>
  /\ UNCHANGED <<list, uniq, pos>>
  /\ ExtractorIdle

MessagePool ==
  {Message(c, mn, <<>>, Src("", <<>>, <<>>, "")) :
     c \in {<<"a">>, <<"|", "a">>},
     mn \in {<<>>, <<<<>>>>, <<<<"a">>>>, <<<<"a", "|">>>>}}

InitDedupe ==
  /\ template = Template(<<>>, <<>>)
  /\ messages = <<>>
  /\ array = 0
  /\ errors = <<>>
  /\ stack = <<>>
  /\ held = <<>>
  /\ list \in Lists(MessagePool, MaxLen)
  /\ uniq = <<>>
  /\ pos = 0
  /\ out = <<>>

NextDedupe ==
  \/ Visit
  \/ ReturnValues

SpecDedupe == InitDedupe /\ [][NextDedupe]_vars

Init ==
  /\ template \in Templates
  /\ messages = <<>>
  /\ array = 0
  /\ errors = <<>>
  /\ stack = <<>>
  /\ held = <<>>
  /\ list = <<>>
  /\ uniq = <<>>
  /\ pos = 0
  /\ out = <<>>

Next ==
  \/ Call
  \/ ParseReturns
  \/ StepError
  \/ StepPush
  \/ StepCatch
  \/ StepThrow
  \/ Return

Spec == Init /\ [][Next]_vars

InitReentrant ==
  /\ template = Template(<<>>, <<>>)
  /\ messages = <<>>
  /\ array = 0
  /\ errors = <<>>
  /\ stack = <<>>
  /\ held = <<>>
  /\ list = <<>>
  /\ uniq = <<>>
  /\ pos = 0
  /\ out = <<>>

NextReentrant ==
  \/ CallAny
  \/ Reenter
  \/ ParseReturns
  \/ StepError
  \/ StepPush
  \/ StepCatch
  \/ StepThrow
  \/ ParseThrow
  \/ Unwind
  \/ Return

SpecReentrant == InitReentrant /\ [][NextReentrant]_vars

(***************************************************************************)
(* Vocabulary of the properties.                                           *)
(***************************************************************************)
TypeOK == Len(stack) <= MaxNest /\ Len(held) <= 2

Outcomes == {held[i] : i \in 1..Len(held)}

Results == {r \in Outcomes : r.outcome = "returned"}

\* the steps of the whole walk of a template
Walk(t) == _recurse(<<Located(t.rootNodes, <<>>)>>)

RECURSIVE PathsOf(_, _)
PathsOf(nodes, parent) ==
  UNION {{Append(parent, i)} \cup PathsOf(nodes[i].children, Append(parent, i)) :
           i \in 1..Len(nodes)}

RECURSIVE NodeAt(_, _)
NodeAt(nodes, path) ==
  IF Len(path) = 1 THEN nodes[path[1]]
  ELSE NodeAt(nodes[path[1]].children, Tail(path))

ElementPaths(t) ==
  {q \in PathsOf(t.rootNodes, <<>>) : NodeAt(t.rootNodes, q).kind = "element"}

ElementAt(t, q) == [n |-> NodeAt(t.rootNodes, q), p |-> q]

AttrsOf(t, q) == {NodeAt(t.rootNodes, q).attrs[i] : i \in 1..Len(NodeAt(t.rootNodes, q).attrs)}

Markers(t, q) == {a \in AttrsOf(t, q) : startsWith(a.name, I18N_ATTR_PREFIX)}

BaseName(a) == substring(a.name, Len(I18N_ATTR_PREFIX))

InTable(t, q, name) == indexOf(transAttrs(ElementAt(t, q)).items, name) > -1

\* the messages of a result that come from attribute `name` of the element at q
From(r, q, name) ==
  SelectSeq(r.messages, LAMBDA m : m.src.at = q /\ m.src.attr = name
                                   /\ m.src.via # "content")

MarkerBuild(t, q, a) == messageFromI18nAttribute(ElementAt(t, q), a, "root")

(***************************************************************************)
(* C1: when the markup parser returns at least one error, extract walks    *)
(* nothing (no partition, no builder) and returns no message and exactly   *)
(* the parser's errors, in the parser's order.                             *)
(***************************************************************************)
C1_FatalShortCircuit ==
  /\ \A r \in Outcomes :
       r.template.errors # <<>> =>
         /\ r.outcome = "returned"
         /\ ~r.walked
         /\ r.done = 0
         /\ r.messages = <<>>
         /\ r.errors = r.template.errors
  /\ \A i \in 1..Len(stack) :
       (stack[i].pc = "walk" /\ stack[i].template.errors # <<>>) =>
         (~stack[i].walked /\ stack[i].agenda = <<>> /\ messages = <<>> /\ errors = <<>>)

C1_Witness ==
  \E r \in Results :
    /\ Len(r.template.errors) = 2
    /\ LET w == Walk(r.template) IN \E k \in 1..Len(w) : w[k].op = "content"
    /\ r.messages = <<>>
    /\ r.errors = r.template.errors

(***************************************************************************)
(* C2: removeDuplicates returns the sub-sequence of its argument made of   *)
(* the first message of each identity, in the order of the argument: it is *)
(* no longer than the argument, every identity of the argument occurs      *)
(* exactly once in it, and the survivor of an identity is its earliest     *)
(* message.                                                                *)
(***************************************************************************)
FirstOccurrences ==
  SelectSeq([i \in 1..Len(list) |-> i],
            LAMBDA i : \A j \in 1..(i - 1) : id(list[j]) # id(list[i]))

C2_FirstOfEachIdentity ==
  out # <<>> =>
    /\ Len(out[1]) <= Len(list)
    /\ \A i \in 1..Len(list) :
         Cardinality({k \in 1..Len(out[1]) : id(out[1][k]) = id(list[i])}) = 1
    /\ out[1] = [k \in 1..Len(FirstOccurrences) |-> list[FirstOccurrences[k]]]

C2_Witness ==
  /\ out # <<>>
  /\ Len(list) = MaxLen
  /\ Len(out[1]) = Len(list) - 1
  /\ id(list[1]) # id(list[2])
  /\ id(list[Len(list)]) = id(list[2])
  /\ list[Len(list)] # list[2]
  /\ out[1][2] = list[2]

(***************************************************************************)
(* C3: an i18n error raised by a message builder during the walk, at any   *)
(* of the three places a message is built (the content of a translatable   *)
(* part, an i18n- attribute, an implicit attribute), is appended to the    *)
(* errors of the result and the walk goes on: the result has the messages  *)
(* of every step that builds one.                                          *)
(***************************************************************************)
OnlyI18nErrors(t) ==
  LET w == Walk(t)
  IN \A k \in 1..Len(w) :
       w[k].op # "error" => (Build(w[k]).ok \/ Build(w[k]).err.type = "I18nError")

C3_EveryI18nErrorIsCollected ==
  \A r \in Outcomes :
    (r.template.errors = <<>> /\ OnlyI18nErrors(r.template)) =>
      /\ r.outcome = "returned"
      /\ LET w == Walk(r.template)
         IN \A k \in 1..Len(w) :
              IF w[k].op = "error" THEN \E i \in 1..Len(r.errors) : r.errors[i] = w[k].err
              ELSE IF Build(w[k]).ok
                   THEN \E i \in 1..Len(r.messages) : r.messages[i] = Build(w[k]).msg
                   ELSE \E i \in 1..Len(r.errors) : r.errors[i] = Build(w[k]).err

(***************************************************************************)
(* C4 as stated: an element that has an attribute X and a marker i18n-X, X *)
(* being in the table of implicit attributes of its tag, yields exactly    *)
(* one message for X, the one built from the marker, and none by the       *)
(* implicit rule.                                                          *)
(***************************************************************************)
C4_ExactlyOneForEveryMarker ==
  \A r \in Results :
    r.walked =>
      \A q \in ElementPaths(r.template) :
        \A a \in Markers(r.template, q) :
          ( /\ \E x \in AttrsOf(r.template, q) : x.name = BaseName(a)
            /\ InTable(r.template, q, BaseName(a)) ) =>
            /\ Len(From(r, q, BaseName(a))) = 1
            /\ From(r, q, BaseName(a))[1].src.via = "explicit"

(***************************************************************************)
(* C4 amended: an element that has an attribute X and a marker i18n-X, X   *)
(* being in the table of implicit attributes of its tag, yields no message *)
(* for X by the implicit rule; when the message of the marker builds it is *)
(* the one message for X, with the meaning and the description of the      *)
(* marker, and when the builder raises an i18n error there is no message   *)
(* for X at all.                                                           *)
(***************************************************************************)
C4_ExplicitClaimsTheAttribute ==
  \A r \in Results :
    r.walked =>
      \A q \in ElementPaths(r.template) :
        \A a \in Markers(r.template, q) :
          ( /\ \E x \in AttrsOf(r.template, q) : x.name = BaseName(a)
            /\ InTable(r.template, q, BaseName(a)) ) =>
            /\ \A k \in 1..Len(From(r, q, BaseName(a))) :
                 From(r, q, BaseName(a))[k].src.via = "explicit"
            /\ IF MarkerBuild(r.template, q, a).ok
               THEN /\ Len(From(r, q, BaseName(a))) = 1
                    /\ From(r, q, BaseName(a))[1].meaning = meaning(<<a.value>>)
                    /\ From(r, q, BaseName(a))[1].description = description(<<a.value>>)
               ELSE Len(From(r, q, BaseName(a))) = 0

C4_Witness ==
  \E r \in Results :
    \E q \in ElementPaths(r.template) :
      \E a \in Markers(r.template, q) :
        /\ \E x \in AttrsOf(r.template, q) : x.name = BaseName(a)
        /\ InTable(r.template, q, BaseName(a))
        /\ Len(From(r, q, BaseName(a))) = 1
        /\ From(r, q, BaseName(a))[1].src.via = "explicit"
        /\ From(r, q, BaseName(a))[1].meaning = <<<<"m">>>>

(***************************************************************************)
(* C6: two calls of extract in succession with the same template return    *)
(* the same messages (content, meaning, identity) in the same order and    *)
(* the same errors in the same order; nothing of the first call shows in   *)
(* the second result and the second call leaves the first result as it     *)
(* was returned.                                                           *)
(***************************************************************************)
C6_SameResultTwice ==
  ( /\ Len(held) = 2
    /\ held[1].outcome = "returned"
    /\ held[1].template = held[2].template ) =>
    /\ held[2].outcome = "returned"
    /\ Len(held[2].messages) = Len(held[1].messages)
    /\ \A k \in 1..Len(held[2].messages) :
         /\ held[2].messages[k].content = held[1].messages[k].content
         /\ held[2].messages[k].meaning = held[1].messages[k].meaning
         /\ id(held[2].messages[k]) = id(held[1].messages[k])
         /\ held[2].messages[k].src = held[1].messages[k].src
    /\ held[2].errors = held[1].errors
    /\ held[1].messages = held[1].atReturn

C6_Witness ==
  /\ Len(held) = 2
  /\ held[1].outcome = "returned"
  /\ held[2].outcome = "returned"
  /\ held[1].template = held[2].template
  /\ Len(held[2].messages) >= 2
  /\ Len(held[2].errors) >= 1
  /\ held[2].messages = held[1].messages

(***************************************************************************)
(* C8: an error raised during the walk that is not an i18n error is never  *)
(* recorded in this._errors and never swallowed: it leaves extract at      *)
(* once, the call returns no result, and no step of the walk is performed  *)
(* after the one that raised it.                                           *)
(***************************************************************************)
C8_OtherErrorsPropagate ==
  /\ \A i \in 1..Len(errors) : errors[i].type # "Error"
  /\ \A r \in Outcomes :
       /\ \A i \in 1..Len(r.errors) : r.errors[i].type # "Error"
       /\ (r.outcome = "returned" /\ r.walked) => OnlyI18nErrors(r.template)
       /\ (r.outcome = "threw" /\ r.thrown.type = "Error") =>
            LET w == Walk(r.template)
            IN /\ r.done + r.left = Len(w)
               /\ Build(w[r.done + 1]).err = r.thrown
               /\ Len(r.messages) + Len(r.errors) = r.done
  /\ (stack = <<>> /\ held # <<>> /\ held[Len(held)].outcome = "threw") =>
       (messages = held[Len(held)].messages /\ errors = held[Len(held)].errors)

C8_Witness ==
  \E r \in Outcomes :
    /\ r.outcome = "threw"
    /\ r.thrown.type = "Error"
    /\ r.left >= 2
    /\ LET w == Walk(r.template)
       IN w[r.done + 1].op = "explicit" /\ Build(w[r.done + 2]).ok
    /\ stack = <<>>

(***************************************************************************)
(* C10: when the builder of a marker i18n-X raises an i18n error, the      *)
(* walk of the element's attributes records exactly one error for it and   *)
(* no message for X (X stays claimed by the marker, so the implicit rule   *)
(* does not extract it either, even when X is in the table of the tag),    *)
(* and still handles every other marker and implicit attribute of the      *)
(* element; the messages of markers precede those of implicit attributes.  *)
(***************************************************************************)
C10_FailedMarkerKeepsItsClaim ==
  \A r \in Results :
    r.walked =>
      \A q \in ElementPaths(r.template) :
        /\ \A a \in Markers(r.template, q) :
             IF MarkerBuild(r.template, q, a).ok
             THEN Len(From(r, q, BaseName(a))) = 1
             ELSE /\ Len(From(r, q, BaseName(a))) = 0
                  /\ Cardinality({i \in 1..Len(r.errors) :
                                    /\ r.errors[i].at = q
                                    /\ r.errors[i].attr = BaseName(a)}) = 1
                  /\ \E i \in 1..Len(r.errors) :
                       r.errors[i] = MarkerBuild(r.template, q, a).err
        /\ \A x \in AttrsOf(r.template, q) :
             ( /\ ~startsWith(x.name, I18N_ATTR_PREFIX)
               /\ InTable(r.template, q, x.name)
               /\ \A a \in Markers(r.template, q) : BaseName(a) # x.name ) =>
               (Len(From(r, q, x.name)) = 1 /\ From(r, q, x.name)[1].src.via = "implicit")
        /\ \A i \in 1..Len(r.messages) : \A j \in 1..Len(r.messages) :
             ( /\ i < j
               /\ r.messages[i].src.at = q
               /\ r.messages[j].src.at = q
               /\ r.messages[i].src.via = "implicit" ) =>
               r.messages[j].src.via = "implicit"

C10_Witness ==
  \E r \in Results :
    \E q \in ElementPaths(r.template) :
      \E a \in Markers(r.template, q) :
        /\ ~MarkerBuild(r.template, q, a).ok
        /\ a.value = Bad
        /\ InTable(r.template, q, BaseName(a))
        /\ \E x \in AttrsOf(r.template, q) : x.name = BaseName(a) /\ x.value = Plain
        /\ Len(From(r, q, BaseName(a))) = 0
        /\ \E m \in {r.messages[i] : i \in 1..Len(r.messages)} :
             m.src.at = q /\ m.src.via = "implicit"
        /\ Len(r.errors) = 1

(***************************************************************************)
(* Positions in the tree.                                                  *)
(***************************************************************************)
Diverge(p, q) == ~IsPrefix(p, q) /\ ~IsPrefix(q, p)

\* p and q part at some level and p is in the earlier sibling subtree
LeftOf(p, q) ==
  /\ Diverge(p, q)
  /\ \E k \in 1..Len(p) :
       /\ k <= Len(q)
       /\ SubSeq(p, 1, k - 1) = SubSeq(q, 1, k - 1)
       /\ p[k] < q[k]

Siblings(t, p) ==
  IF Len(p) = 1 THEN t.rootNodes
  ELSE NodeAt(t.rootNodes, SubSeq(p, 1, Len(p) - 1)).children

\* the node at index i of the sibling list lies between an opening comment
\* and the closing comment that follows it
InSpan(nodes, i) ==
  \E o \in 1..(i - 1) :
    /\ _isOpeningComment(nodes[o])
    /\ \A k \in (o + 1)..i : ~_isClosingComment(nodes[k])

Translatable(n) ==
  /\ n.kind = "element"
  /\ \/ \E i \in 1..Len(n.attrs) : n.attrs[i].name = I18N_ATTR
     \/ \E i \in 1..Len(_implicitTags) : _implicitTags[i] = n.name

\* the node at p lies inside a translatable part: it or one of its ancestors
\* is in a comment span, or one of its proper ancestors is translatable
Covered(t, p) ==
  \E k \in 1..Len(p) :
    \/ InSpan(Siblings(t, SubSeq(p, 1, k)), p[k])
    \/ k < Len(p) /\ Translatable(NodeAt(t.rootNodes, SubSeq(p, 1, k)))

\* the nodes that start a translatable part
PartStarts(t) ==
  {p \in PathsOf(t.rootNodes, <<>>) :
     /\ ~Covered(t, p)
     /\ \/ Translatable(NodeAt(t.rootNodes, p))
        \/ _isOpeningComment(NodeAt(t.rootNodes, p))}

ContentAt(r, p) ==
  SelectSeq(r.messages, LAMBDA m : m.src.via = "content" /\ m.src.at = p)

(***************************************************************************)
(* C7 as stated: the messages are in pre-order, left to right: no message  *)
(* of an element (its content message, the messages of its attributes)     *)
(* comes after a message of one of its descendants, and the messages of a  *)
(* sibling subtree precede those of a later sibling subtree.               *)
(***************************************************************************)
C7_PreOrder ==
  \A r \in Results :
    \A i \in 1..Len(r.messages) : \A j \in 1..Len(r.messages) :
      i < j =>
        /\ ~IsProperPrefix(r.messages[j].src.at, r.messages[i].src.at)
        /\ Diverge(r.messages[i].src.at, r.messages[j].src.at) =>
             LeftOf(r.messages[i].src.at, r.messages[j].src.at)

(***************************************************************************)
(* C7 amended: the messages of a sibling subtree precede those of a later  *)
(* sibling subtree, the content message of a part precedes every message   *)
(* from inside the part and an element inside a translatable part has its  *)
(* attribute messages before those of its descendants, but the attribute   *)
(* messages of the root element of a part come after every message taken   *)
(* from the part's children.                                               *)
(***************************************************************************)
C7_RootAttributesLast ==
  \A r \in Results :
    \A i \in 1..Len(r.messages) : \A j \in 1..Len(r.messages) :
      i < j =>
        LET a == r.messages[i].src
            b == r.messages[j].src
        IN /\ Diverge(a.at, b.at) => LeftOf(a.at, b.at)
           /\ IsProperPrefix(b.at, a.at) => (b.via # "content" /\ b.site = "root")
           /\ IsProperPrefix(a.at, b.at) => (a.via = "content" \/ a.site = "nested")
           /\ a.at = b.at => b.via # "content"
           /\ (b.via # "content" /\ b.site = "root") => ~Covered(r.template, b.at)
           /\ (a.via # "content" /\ a.site = "nested") => Covered(r.template, a.at)

C7_Witness ==
  \E r \in Results :
    \E i \in 1..Len(r.messages) : \E j \in 1..Len(r.messages) :
      \E k \in 1..Len(r.messages) :
        /\ k < i
        /\ i < j
        /\ r.messages[k].src.via = "content"
        /\ r.messages[k].src.at = r.messages[j].src.at
        /\ IsProperPrefix(r.messages[j].src.at, r.messages[i].src.at)
        /\ r.messages[j].src.site = "root"

(***************************************************************************)
(* C9: a translatable part gives exactly one content message, and the      *)
(* elements inside it, at any depth, give attribute messages only, also    *)
(* when they carry the marker or have an implicit tag; the attributes of   *)
(* every such element are inspected, and those of the part's root element. *)
(* The children of a part that is not translatable are partitioned again,  *)
(* so the translatable parts below it give their content messages.         *)
(***************************************************************************)
C9_OneContentMessagePerPart ==
  \A r \in Results :
    r.walked =>
      /\ \A p \in PathsOf(r.template.rootNodes, <<>>) :
           Len(ContentAt(r, p)) = IF p \in PartStarts(r.template) THEN 1 ELSE 0
      /\ \A i \in 1..Len(r.messages) :
           r.messages[i].src.via # "content" =>
             (r.messages[i].src.site = "nested" <=> Covered(r.template, r.messages[i].src.at))
      /\ \A q \in ElementPaths(r.template) :
           (Covered(r.template, q) \/ q \in PartStarts(r.template)) =>
             \A x \in AttrsOf(r.template, q) :
               Len(From(r, q, x.name)) =
                 IF \/ \E a \in Markers(r.template, q) :
                         BaseName(a) = x.name /\ MarkerBuild(r.template, q, a).ok
                    \/ /\ ~startsWith(x.name, I18N_ATTR_PREFIX)
                       /\ InTable(r.template, q, x.name)
                       /\ \A a \in Markers(r.template, q) : BaseName(a) # x.name
                 THEN 1 ELSE 0

C9_Witness ==
  \E r \in Results :
    \E p \in PartStarts(r.template) :
      \E q \in ElementPaths(r.template) :
        /\ IsProperPrefix(p, q)
        /\ Len(q) >= Len(p) + 2
        /\ Translatable(NodeAt(r.template.rootNodes, q))
        /\ Len(ContentAt(r, p)) = 1
        /\ Len(ContentAt(r, q)) = 0
        /\ \E m \in {r.messages[i] : i \in 1..Len(r.messages)} :
             m.src.at = q /\ m.src.via = "implicit" /\ m.src.site = "nested"
        /\ \E m \in {r.messages[i] : i \in 1..Len(r.messages)} :
             m.src.at = p /\ m.src.via = "implicit" /\ m.src.site = "root"

(***************************************************************************)
(* What one invocation on a fresh extractor makes of a template.           *)
(***************************************************************************)
RECURSIVE Run(_, _, _)
Run(steps, msgs, errs) ==
  IF steps = <<>> THEN [outcome |-> "returned", messages |-> msgs, errors |-> errs]
  ELSE LET s == Head(steps)
       IN IF s.op = "error" THEN Run(Tail(steps), msgs, Append(errs, s.err))
          ELSE IF Build(s).ok THEN Run(Tail(steps), Append(msgs, Build(s).msg), errs)
          ELSE IF caught(s, Build(s).err)
               THEN Run(Tail(steps), msgs, Append(errs, Build(s).err))
               ELSE [outcome |-> "threw", messages |-> msgs, errors |-> errs]

Alone(t) ==
  LET walk == Run(IF shouldWalk(parse(t)) THEN Walk(t) ELSE <<>>, <<>>, <<>>)
  IN [outcome |-> walk.outcome, messages |-> walk.messages,
      errors |-> resultErrors(walk.errors, parse(t))]

OwnResult(r) ==
  /\ r.outcome = Alone(r.template).outcome
  /\ r.outcome = "returned" =>
       /\ r.messages = Alone(r.template).messages
       /\ r.errors = Alone(r.template).errors
       /\ r.atReturn = r.messages

(***************************************************************************)
(* C5 as stated: extract is reentrant: when invocations on one extractor   *)
(* overlap, each returns the messages and errors of its own document and   *)
(* no result is changed by another invocation.                             *)
(***************************************************************************)
C5_Reentrant == \A r \in Outcomes : OwnResult(r)

(***************************************************************************)
(* C5 amended: the accumulators are fields of the extractor, set anew when *)
(* a call starts, so the invocations that do not overlap another one are   *)
(* independent: each returns the messages and errors of its own document   *)
(* and its result is not changed by the invocations that follow.           *)
(***************************************************************************)
C5_IndependentWhenNotOverlapping ==
  \A r \in Outcomes : ~r.overlapped => OwnResult(r)

C5_Witness ==
  /\ Len(held) = 2
  /\ stack = <<>>
  /\ ~held[1].overlapped
  /\ ~held[2].overlapped
  /\ held[1].outcome = "returned"
  /\ held[2].outcome = "returned"
  /\ held[1].template # held[2].template
  /\ held[1].messages # <<>>
  /\ held[2].errors # <<>>
  /\ held[2].messages = <<>>

====
